---- MODULE Spec2Model ----
(***************************************************************************)
(* RecorderPlayer: the recorder/player engine of the auto-clicker.         *)
(*                                                                         *)
(* Threads of the program:                                                 *)
(*   - the control thread (the Tk main loop of App): every call of         *)
(*     start_recording, stop_recording, load, play and stop_play is made   *)
(*     from it, one call at a time (button commands and root.after);       *)
(*   - the playback threads started by play() (target);                    *)
(*   - the callback threads of the pynput listeners, one per device.       *)
(* A step of the model is one read or write of shared state by one of      *)
(* these threads; time.sleep and Thread.join let the other threads run.    *)
(*                                                                         *)
(* Specifications:                                                         *)
(*   Spec      the session: every call of the control thread and the       *)
(*             playback threads (the callbacks of the listeners only       *)
(*             append to self.events and are followed in SpecRec);         *)
(*   SpecLog   one playback that nobody cancels, with load() at any time;  *)
(*   SpecRec   recording: start_recording, stop_recording, load, the       *)
(*             callbacks of the listeners and the clock;                   *)
(*   SpecGate  the suppression scope used by several threads, nested;      *)
(*   SpecCodec one input captured by a callback, or one stored record, and *)
(*             its replay by _perform_event;                               *)
(*   SpecDetect the global listeners of App that cancel a playback on user *)
(*             input;                                                      *)
(*   SpecHook  recording where a call of lines 83-86 can raise;             *)
(*   SpecStop  stop_play() called by the control thread, by a callback     *)
(*             thread and by a playback thread, with fairness.             *)
(***************************************************************************)
EXTENDS Integers, Sequences, FiniteSets, TLC

\* ---------------------------------------------------------------- bounds
MaxTasks == 2       \* playback threads that exist at the same time
MaxLog == 2         \* events a recording captures
MaxTime == 2        \* ticks of the wall clock
MaxHooks == 2       \* listener pairs running at the same time
NumEmitters == 3    \* threads using the suppression scope (gate model)
MaxDepth == 2       \* nesting depth of suppression scopes (gate model)
MaxPending == 1     \* calls of stop_play queued with root.after and not yet run

Tasks == 1..MaxTasks
Emitters == 1..NumEmitters
Devices == {"mouse", "kb"}
\* the arguments <<repeat_count, interval>> of play: infinite or finite, with or
\* without interval
PlayArgs == {<<0, 0>>, <<1, 1>>}
\* the arguments of play where the cycles of one playback are compared
RepeatArgs == {<<1, 0>>, <<2, 1>>}

\* None of Python, for start_time and play_thread
None == 0

\* ---------------------------------------------------------------- events
\* an entry of self.events: a dict with "type" and "time"
Ev(ty, t) == [type |-> ty, time |-> t]
\* an entry json.load can deliver that is no dict (ev.get raises AttributeError)
NotADict == [type |-> "not_a_dict", time |-> 0]
\* what json.load(f) may return in load(): a recorded log, or a list with an entry
\* that is no event
LoadLogs == { <<Ev("key_press", 0)>>, <<NotADict>> }
\* the log load() delivers where the calls of stop_play() are followed
StopLogs == { <<Ev("key_press", 0)>> }
\* the recorded logs load() delivers where the cycles of one playback are compared
RecordedLogs == { <<Ev("key_press", 0)>>, <<Ev("mouse_move", 0), Ev("key_press", 1)>> }

HookType(d) == IF d = "mouse" THEN "mouse_move" ELSE "key_press"

VARIABLES
  recording,        \* self.recording
  playing,          \* self.playing
  start_time,       \* self.start_time (None or the clock at start)
  events,           \* self.events
  mouse_listener,   \* self.mouse_listener is not None
  kb_listener,      \* self.kb_listener is not None
  mouse_hooks,      \* mouse listeners started and not stopped
  kb_hooks,         \* keyboard listeners started and not stopped
  play_thread,      \* self.play_thread (None or a task)
  stop_play_event,  \* self.stop_play_event.is_set()
  suppress_count,   \* self._suppress_count
  now,              \* time.time()
  mpc,              \* control thread: where it is inside a call, or the error raised
  sp,               \* control thread: the playback stop_play was called on (0: none)
  tasks,            \* the playback threads (locals of target and history)
  hook,             \* the listener callback threads, per device
  watch,            \* history kept: "playback" (what each cycle performs),
                    \* "listeners" (how many listeners run) or "none"
  depth,            \* gate model: open scopes per emitter
  raising,          \* gate model: depth of the scope whose body raised (0: none)
  observed,         \* gate model: last value returned by is_suppressed()
  cdc,              \* codec model: one event from its capture to its replay
  det,              \* App: the callback of a global listener and the calls it queued
  xc,               \* a call of stop_play() made by another thread than the control thread
  unstarted         \* devices whose listener in self.<device>_listener was never started

mainvars == <<recording, playing, start_time, events, mouse_listener, kb_listener,
              mouse_hooks, kb_hooks, play_thread, stop_play_event, now, mpc, sp,
              tasks, hook, watch, unstarted>>
rec_vars == <<recording, start_time, mouse_listener, kb_listener, mouse_hooks, kb_hooks,
              unstarted>>
play_vars == <<playing, play_thread, stop_play_event>>
ctl_vars == <<mpc, sp, watch>>
gatevars == <<depth, raising, observed>>
vars == <<mainvars, suppress_count, gatevars, cdc, det, xc>>

\* a playback thread that was never started
NoTask ==
  [pc |-> "none", repeat_count |-> 0, interval |-> 0, cycles_done |-> 0,
   idx |-> 0, aliased |-> FALSE, it_log |-> <<>>,
   startlog |-> <<>>, inorder |-> TRUE, exit |-> "none"]

\* the thread play() creates: target's locals at its first line
NewTask(rc, iv) ==
  [NoTask EXCEPT !.pc = "loop", !.repeat_count = rc, !.interval = iv,
                 !.startlog = IF watch = "playback" THEN events ELSE <<>>]

NoHook == [pc |-> "idle", time |-> 0]

\* no callback of a global listener of App runs, and no call is queued
NoInput == [pc |-> "idle", dev |-> "none", pending |-> 0]

\* no thread but the control thread is inside stop_play()
NoCall == [pc |-> "idle", who |-> None, joined |-> None]

\* codec model: no event is being followed
NoCodec == [pc |-> "idle"]

InitSession ==
  /\ recording = FALSE
  /\ playing = FALSE
  /\ start_time = None
  /\ events = <<>>
  /\ mouse_listener = FALSE
  /\ kb_listener = FALSE
  /\ mouse_hooks = 0
  /\ kb_hooks = 0
  /\ unstarted = {}
  /\ play_thread = None
  /\ stop_play_event = FALSE
  /\ suppress_count = 0
  /\ now = 1
  /\ mpc = "idle"
  /\ sp = 0
  /\ tasks = [i \in Tasks |-> NoTask]
  /\ hook = [d \in Devices |-> NoHook]
  /\ depth = [e \in Emitters |-> 0]
  /\ raising = [e \in Emitters |-> 0]
  /\ observed = FALSE
  /\ cdc = NoCodec
  /\ det = NoInput
  /\ xc = NoCall

Init == InitSession /\ watch = "none"
InitLog == InitSession /\ watch = "playback"
InitRec == InitSession /\ watch = "listeners"

\* a call of the control thread that ends with an exception: the error stays
\* visible until the caller goes on (App catches it, lines 445, 498)
Outcomes == {"start_recording:InvalidState", "play:InvalidState", "play:EmptyLog",
             "start_recording:HookInstallError"}

\* a thread that can still perform events
Alive(i) == tasks[i].pc \in {"loop", "for", "inject", "interval"}
\* a thread object whose target has not returned
Running(i) == tasks[i].pc \notin {"none", "done"}

\* self.events = <new list>: an iterator keeps the list it was made on, and so does
\* the bound method self.events.append of a callback in flight, whose append is
\* then made to a list the session no longer holds: that callback is over
Rebind(log) ==
  /\ events' = log
  /\ tasks' = [i \in Tasks |->
                 IF tasks[i].aliased
                 THEN [tasks[i] EXCEPT !.aliased = FALSE, !.it_log = events]
                 ELSE tasks[i]]
  /\ hook' = [d \in Devices |-> NoHook]

\* ------------------------------------------------ suppression gate (29-41)
\* _suppress_events, entry: with self._suppress_lock: self._suppress_count += 1
SuppressEnter == suppress_count' = suppress_count + 1
\* a scope without try/finally: a body that raises skips the decrement
SuppressExit_NoFinally(raised) ==
  suppress_count' = IF raised THEN suppress_count ELSE suppress_count - 1
\* _suppress_events, exit: the finally decrements whether or not the body raised
SuppressExit(raised) == suppress_count' = suppress_count - 1
\* is_suppressed()
is_suppressed == suppress_count > 0

\* ------------------------------------------------ control thread: recording
\* lines 85-86, listener.start(), and lines 94/98, listener.stop(): the number of
\* listeners that run, followed where the callbacks of the listeners are
Started(n) == IF watch = "listeners" THEN n + 1 ELSE n
Stopped(n) == IF watch = "listeners" THEN n - 1 ELSE n

\* start_recording without the check of line 48
StartRecording_Unchecked == FALSE
\* start_recording, line 48: if self.playing: raise RuntimeError
StartRecordingRefused == playing

\* start_recording(), lines 47-86
StartRecording ==
  /\ mpc = "idle"
  /\ IF StartRecordingRefused
     THEN /\ mpc' = "start_recording:InvalidState"
          /\ UNCHANGED <<rec_vars, events, tasks, hook>>
     ELSE /\ mouse_hooks < MaxHooks
          /\ kb_hooks < MaxHooks
          /\ Rebind(<<>>)
          /\ start_time' = now
          /\ recording' = TRUE
          /\ mouse_listener' = TRUE
          /\ kb_listener' = TRUE
          /\ mouse_hooks' = Started(mouse_hooks)
          /\ kb_hooks' = Started(kb_hooks)
          /\ unstarted' = {}
          /\ UNCHANGED mpc
  /\ UNCHANGED <<play_vars, sp, watch, now, suppress_count, gatevars, cdc, det, xc>>

\* the calls of lines 83-86 that can raise: the two constructors and the two start()
FailPoints == {"mouse_ctor", "kb_ctor", "mouse_start", "kb_start"}

\* start_recording(), lines 47-86, when the call `at` of lines 83-86 raises: lines
\* 50-52 and the assignments before that call have been executed, nothing is undone
\* and the exception leaves start_recording (App catches it, line 445)
StartRecordingFails(at) ==
  /\ mpc = "idle"
  /\ ~StartRecordingRefused
  /\ Rebind(<<>>)
  /\ start_time' = now
  /\ recording' = TRUE
  /\ mouse_listener' = IF at = "mouse_ctor" THEN mouse_listener ELSE TRUE
  /\ kb_listener' = IF at \in {"mouse_ctor", "kb_ctor"} THEN kb_listener ELSE TRUE
  /\ at = "kb_start" => mouse_hooks < MaxHooks
  /\ mouse_hooks' = IF at = "kb_start" THEN Started(mouse_hooks) ELSE mouse_hooks
  /\ kb_hooks' = kb_hooks
  /\ unstarted' = CASE at = "mouse_ctor" -> unstarted
                     [] at = "kb_ctor" -> unstarted \cup {"mouse"}
                     [] at = "mouse_start" -> {"mouse", "kb"}
                     [] at = "kb_start" -> {"kb"}
  /\ mpc' = "start_recording:HookInstallError"
  /\ UNCHANGED <<play_vars, sp, watch, now, suppress_count, gatevars, cdc, det, xc>>

\* stop_recording(), lines 89-92: recording = False, then time.sleep(0.05); when
\* not recording the call returns at line 90 and no state changes
StopRecordingBegin ==
  /\ mpc = "idle"
  /\ recording
  /\ recording' = FALSE
  /\ mpc' = "rec_sleep"
  /\ UNCHANGED <<start_time, mouse_listener, kb_listener, mouse_hooks, kb_hooks, unstarted,
                 play_vars, sp, watch, events, tasks, hook, now, suppress_count, gatevars, cdc, det, xc>>

\* stop_recording(), lines 93-101: after the sleep, stop the listeners it references
\* (stop() of a listener that was never started ends no hook)
StopRecordingEnd ==
  /\ mpc = "rec_sleep"
  /\ mouse_hooks' = IF mouse_listener /\ "mouse" \notin unstarted
                    THEN Stopped(mouse_hooks) ELSE mouse_hooks
  /\ kb_hooks' = IF kb_listener /\ "kb" \notin unstarted
                 THEN Stopped(kb_hooks) ELSE kb_hooks
  /\ unstarted' = {}
  /\ mouse_listener' = FALSE
  /\ kb_listener' = FALSE
  /\ start_time' = None
  /\ mpc' = "idle"
  /\ UNCHANGED <<recording, play_vars, sp, watch, events, tasks, hook, now,
                 suppress_count, gatevars, cdc, det, xc>>

\* load(filepath), lines 108-110: no check of recording or playing
Load(log) ==
  /\ mpc = "idle"
  /\ Rebind(log)
  /\ UNCHANGED <<rec_vars, play_vars, ctl_vars, now, suppress_count, gatevars, cdc, det, xc>>

\* ------------------------------------------------ control thread: playback
\* play without the check of line 114
Play_UncheckedRecording == FALSE
\* play, line 114: if self.recording: raise RuntimeError
PlayRefusedRecording == recording
\* play without the check of line 116
Play_UncheckedEmpty == FALSE
\* play, line 116: if not self.events: raise RuntimeError
PlayRefusedEmpty == events = <<>>
\* play, line 118: if self.playing: return
PlayAlreadyPlaying == playing

\* the Thread object play() creates takes the lowest slot with no running thread
FreeSlot == CHOOSE i \in Tasks : ~Running(i) /\ \A j \in Tasks : j < i => Running(j)

\* play(repeat_count, interval), lines 113-164
Play(rc, iv) ==
  /\ mpc = "idle"
  /\ IF PlayRefusedRecording
     THEN /\ mpc' = "play:InvalidState"
          /\ UNCHANGED <<play_vars, tasks>>
     ELSE IF PlayRefusedEmpty
     THEN /\ mpc' = "play:EmptyLog"
          /\ UNCHANGED <<play_vars, tasks>>
     ELSE IF PlayAlreadyPlaying
     THEN UNCHANGED <<mpc, play_vars, tasks>>
     ELSE /\ \E i \in Tasks : ~Running(i)
          /\ stop_play_event' = FALSE
          /\ playing' = TRUE
          /\ tasks' = [tasks EXCEPT ![FreeSlot] = NewTask(rc, iv)]
          /\ play_thread' = FreeSlot
          /\ UNCHANGED mpc
  /\ UNCHANGED <<rec_vars, sp, watch, events, hook, now, suppress_count, gatevars, cdc, det, xc>>

\* the caller of a call that raised goes on (App, lines 445 and 498)
Resume ==
  /\ mpc \in Outcomes
  /\ mpc' = "idle"
  /\ UNCHANGED <<rec_vars, play_vars, sp, watch, events, tasks, hook, now,
                 suppress_count, gatevars, cdc, det, xc>>

\* Thread.join(timeout=1.0) gives up on a thread that stays longer than the timeout
\* in one step; the only step of target without a polling bound (0.01 s and 0.05 s
\* slices, lines 145 and 159) is the native injection inside _perform_event
JoinTimesOut(i) == tasks[i].pc = "inject"

\* stop_play(), line 168: self.stop_play_event.set()
StopPlayBegin ==
  /\ mpc = "idle"
  /\ stop_play_event' = TRUE
  /\ sp' = IF playing /\ play_thread # None /\ Alive(play_thread) THEN play_thread ELSE 0
  /\ mpc' = IF play_thread # None THEN "stop_join" ELSE "stop_reset"
  /\ UNCHANGED <<rec_vars, playing, play_thread, watch, events, tasks, hook, now,
                 suppress_count, gatevars, cdc, xc>>

\* stop_play() called by the control thread from a button command
StopPlaySignal == StopPlayBegin /\ UNCHANGED det

\* stop_play(), lines 170-174: the control thread is never the playback thread, so
\* it joins: the join ends when the thread has ended or when the timeout expires
StopPlayJoin ==
  /\ mpc = "stop_join"
  /\ ~Running(play_thread) \/ JoinTimesOut(play_thread)
  /\ mpc' = "stop_reset"
  /\ UNCHANGED <<rec_vars, play_vars, sp, watch, events, tasks, hook, now,
                 suppress_count, gatevars, cdc, det, xc>>

\* stop_play(), line 175: self.playing = False
StopPlayReset ==
  /\ mpc = "stop_reset"
  /\ playing' = FALSE
  /\ mpc' = "stop_clear"
  /\ UNCHANGED <<rec_vars, play_thread, stop_play_event, sp, watch, events, tasks, hook,
                 now, suppress_count, gatevars, cdc, det, xc>>

\* stop_play returning without line 177
StopPlayClear_KeepsSignal ==
  /\ mpc = "stop_clear"
  /\ sp' = 0
  /\ mpc' = "idle"
  /\ UNCHANGED <<rec_vars, play_vars, watch, events, tasks, hook, now,
                 suppress_count, gatevars, cdc, det, xc>>
\* stop_play(), line 177: self.stop_play_event.clear(), and the return
StopPlayClear ==
  /\ mpc = "stop_clear"
  /\ stop_play_event' = FALSE
  /\ sp' = 0
  /\ mpc' = "idle"
  /\ UNCHANGED <<rec_vars, playing, play_thread, watch, events, tasks, hook, now,
                 suppress_count, gatevars, cdc, det, xc>>

\* ------------------------------------------------ playback thread (target)
\* the list the for loop of line 130 iterates: self.events as long as it was not
\* rebound, else the list self.events was when the loop began
Cur(i) == IF tasks[i].aliased THEN events ELSE tasks[i].it_log

\* target without try/finally: an exception ends the thread at once
Leave_NoFinally(i, how) ==
  [tasks EXCEPT ![i] = IF how = "failed" THEN [NoTask EXCEPT !.pc = "done"]
                       ELSE [@ EXCEPT !.pc = "finally", !.exit = how,
                                      !.aliased = FALSE, !.it_log = <<>>]]
\* target leaves its loops for the finally clause
Leave(i, how) ==
  [tasks EXCEPT ![i].pc = "finally", ![i].exit = how,
                ![i].aliased = FALSE, ![i].it_log = <<>>]

\* what no step of a playback thread outside _perform_event and the finally changes
T_Frame == UNCHANGED <<rec_vars, play_vars, ctl_vars, events, hook, now, gatevars, cdc, det, xc>>

\* line 128: while infinite or cycles_done < repeat_count, and the iterator of
\* line 130 on the list self.events is at that moment
T_Loop(i) ==
  /\ tasks[i].pc = "loop"
  /\ IF tasks[i].repeat_count <= 0 \/ tasks[i].cycles_done < tasks[i].repeat_count
     THEN tasks' = [tasks EXCEPT ![i].pc = "for", ![i].idx = 0, ![i].aliased = TRUE]
     ELSE tasks' = Leave(i, "completed")
  /\ UNCHANGED suppress_count
  /\ T_Frame

\* the cycle of line 130 has come to the end of its list: lines 152-154,
\* cycles_done += 1 and the test of interval (an infinite playback never reads
\* cycles_done, line 128, and the model does not count it). inorder: the cycle
\* performed as many events as the log had when play() was called
EndCycle(i) ==
  [tasks EXCEPT ![i].cycles_done = IF tasks[i].repeat_count <= 0 THEN @ ELSE @ + 1,
                ![i].aliased = FALSE, ![i].it_log = <<>>,
                ![i].inorder = @ /\ (watch = "playback" => tasks[i].idx = Len(tasks[i].startlog)),
                ![i].pc = IF tasks[i].interval > 0 THEN "interval" ELSE "loop"]

\* line 148: _perform_event(ev) is called and enters its suppression scope.
\* inorder: ev is the event the log had at this place when play() was called
BeginPerform(i) ==
  [tasks EXCEPT ![i].pc = "inject",
                ![i].inorder =
                   @ /\ (watch = "playback" =>
                           /\ tasks[i].idx < Len(tasks[i].startlog)
                           /\ Cur(i)[tasks[i].idx + 1] = tasks[i].startlog[tasks[i].idx + 1])]

\* lines 130-148: the next event of the list, the polls of the cancellation signal
\* (131, 139; the thread reads nothing else shared between them), the target time
\* (ev.get raises on an entry that is no dict, outside the try of 147), the wait
\* in slices and the call of _perform_event
T_For(i) ==
  /\ tasks[i].pc = "for"
  /\ IF tasks[i].idx >= Len(Cur(i))
     THEN /\ tasks' = EndCycle(i)
          /\ UNCHANGED suppress_count
     ELSE IF stop_play_event
     THEN /\ tasks' = Leave(i, "cancelled")
          /\ UNCHANGED suppress_count
     ELSE IF Cur(i)[tasks[i].idx + 1] = NotADict
     THEN /\ tasks' = Leave(i, "failed")
          /\ UNCHANGED suppress_count
     ELSE /\ tasks' = BeginPerform(i)
          /\ SuppressEnter
  /\ T_Frame

\* the native injection inside the scope succeeds or raises; the scope ends either
\* way and lines 149-151 swallow the exception
T_Inject(i, ok) ==
  /\ tasks[i].pc = "inject"
  /\ SuppressExit(~ok)
  /\ tasks' = [tasks EXCEPT ![i].pc = "for", ![i].idx = @ + 1]
  /\ T_Frame

\* lines 154-159: the wait between cycles, polling the cancellation signal
T_Interval(i) ==
  /\ tasks[i].pc = "interval"
  /\ IF stop_play_event
     THEN tasks' = Leave(i, "cancelled")
     ELSE tasks' = [tasks EXCEPT ![i].pc = "loop"]
  /\ UNCHANGED suppress_count
  /\ T_Frame

\* a thread whose target has returned (its locals are gone)
DoneTask == [NoTask EXCEPT !.pc = "done"]

\* lines 160-161: finally: self.playing = False, and the thread ends
T_Finally(i) ==
  /\ tasks[i].pc = "finally"
  /\ playing' = FALSE
  /\ tasks' = [tasks EXCEPT ![i] = DoneTask]
  /\ UNCHANGED <<rec_vars, play_thread, stop_play_event, ctl_vars, events, hook, now,
                 suppress_count, gatevars, cdc, det, xc>>

\* ------------------------------------------------ listener callbacks (54-81)
Hooks(d) == IF d = "mouse" THEN mouse_hooks ELSE kb_hooks

\* callbacks that will still append to self.events
InFlight == Cardinality({d \in Devices : hook[d].pc # "idle"})

\* _time(), line 45
Time == IF start_time # None THEN now - start_time ELSE 0

H_Frame == UNCHANGED <<rec_vars, play_vars, ctl_vars, tasks, now, suppress_count,
                       gatevars, cdc, det, xc>>

\* lines 55/73: if self.recording, and the lookup of self.events.append, which
\* Python evaluates before the argument of the call
H_Check(d) ==
  /\ hook[d].pc = "idle"
  /\ Hooks(d) > 0
  /\ recording
  /\ Len(events) + InFlight < MaxLog
  /\ hook' = [hook EXCEPT ![d].pc = "bound"]
  /\ UNCHANGED events
  /\ H_Frame

\* lines 56/76: the argument {"type": ..., "time": self._time(), ...}
H_Time(d) ==
  /\ hook[d].pc = "bound"
  /\ hook' = [hook EXCEPT ![d].pc = "timed", ![d].time = Time]
  /\ UNCHANGED events
  /\ H_Frame

\* lines 56/76: the append itself, to the list looked up in H_Check
H_Append(d) ==
  /\ hook[d].pc = "timed"
  /\ events' = Append(events, Ev(HookType(d), hook[d].time))
  /\ hook' = [hook EXCEPT ![d] = NoHook]
  /\ H_Frame

\* time.time() advances; the clock is read by start_recording and by _time() only,
\* so its ticks are followed while a recording has set start_time
Tick ==
  /\ start_time # None
  /\ now < MaxTime
  /\ now' = now + 1
  /\ UNCHANGED <<rec_vars, play_vars, ctl_vars, events, tasks, hook, suppress_count,
                 gatevars, cdc, det, xc>>

\* ------------------------------------------------ users of the suppression scope
\* scopes of _suppress_events that are open: those of the emitters and those of the
\* playback threads inside _perform_event
OpenScopes ==
  LET RECURSIVE Sum(_)
      Sum(es) == IF es = {} THEN 0
                 ELSE LET e == CHOOSE x \in es : TRUE IN depth[e] + Sum(es \ {e})
  IN Sum(Emitters) + Cardinality({i \in Tasks : tasks[i].pc = "inject"})

G_Frame == UNCHANGED <<mainvars, observed, cdc, det, xc>>

\* with self._suppress_events(): entered by emitter e, possibly inside another scope
GateEnter(e) ==
  /\ raising[e] = 0
  /\ depth[e] < MaxDepth
  /\ SuppressEnter
  /\ depth' = [depth EXCEPT ![e] = @ + 1]
  /\ UNCHANGED raising
  /\ G_Frame

\* the body of the innermost scope of emitter e raises
GateRaise(e) ==
  /\ raising[e] = 0
  /\ depth[e] > 0
  /\ raising' = [raising EXCEPT ![e] = depth[e]]
  /\ UNCHANGED <<suppress_count, depth>>
  /\ G_Frame

\* the innermost scope of emitter e ends: its body is over, or the exception passes
\* through its finally; the exception is caught outside the outermost scope
GateExit(e) ==
  /\ depth[e] > 0
  /\ SuppressExit(raising[e] # 0)
  /\ depth' = [depth EXCEPT ![e] = @ - 1]
  /\ raising' = [raising EXCEPT ![e] = IF depth[e] = 1 THEN 0 ELSE @]
  /\ G_Frame

\* is_suppressed() called by a thread of its own (a listener callback of App)
GateRead ==
  /\ observed' = is_suppressed
  /\ UNCHANGED <<mainvars, suppress_count, depth, raising, cdc, det, xc>>

\* ------------------------------------------------ codec: values (54-81, 179-264)
\* values of Python held by an event: None, a str as the sequence of its
\* characters, the str of the "type" entry (only compared as a whole), bool, int
PyNone == [py |-> "None"]
PyStr(s) == [py |-> "str", s |-> s]
PyTag(name) == [py |-> "str", tag |-> name]
PyBool(b) == [py |-> "bool", b |-> b]
PyInt(n) == [py |-> "int", n |-> n]

\* bool(v) as `if not k`, `if btn_str` and `if pressed` take it
Truthy(v) == v # PyNone /\ v # PyStr(<<>>) /\ v # PyBool(FALSE) /\ v # PyInt(0)

\* ev.get(f, dflt)
Get(ev, f, dflt) == IF f \in DOMAIN ev THEN ev[f] ELSE dflt

KeyDot == <<"K", "e", "y", ".">>
ButtonDot == <<"B", "u", "t", "t", "o", "n", ".">>
Quote == "'"

\* s.startswith(pre)
StartsWith(s, pre) == Len(s) >= Len(pre) /\ SubSeq(s, 1, Len(pre)) = pre
\* s.split(".", 1)[1], for s that holds a "."
AfterFirstDot(s) ==
  LET i == CHOOSE n \in 1..Len(s) : s[n] = "." /\ \A m \in 1..(n - 1) : s[m] # "."
  IN SubSeq(s, i + 1, Len(s))
\* s.split(".")[-1]
LastPart(s) ==
  LET dots == {n \in 1..Len(s) : s[n] = "."}
      i == IF dots = {} THEN 0 ELSE CHOOSE n \in dots : \A m \in dots : m <= n
  IN SubSeq(s, i + 1, Len(s))

\* names of members of pynput.keyboard.Key and of pynput.mouse.Button
KeyNames == { <<"f", "8">>, <<"u", "p">> }
Left == <<"l", "e", "f", "t">>
ButtonNames == { Left, <<"r", "i", "g", "h", "t">>, <<"x", "1">> }

\* what the listeners pass to the callbacks: a member of Key, a KeyCode (its char
\* is None for a key without a character), a member of Button
KeyMember(n) == [cls |-> "Key", name |-> n]
KeyCode(ch, vk) == [cls |-> "KeyCode", char |-> ch, vk |-> vk]
ButtonMember(n) == [cls |-> "Button", name |-> n]

\* str(obj): "Key.<name>", "Button.<name>", and the repr of a KeyCode
StrOf(o) ==
  IF o.cls = "Key" THEN KeyDot \o o.name
  ELSE IF o.cls = "Button" THEN ButtonDot \o o.name
  ELSE IF o.char # PyNone THEN <<Quote>> \o o.char.s \o <<Quote>>
  ELSE <<"<", "v", "k", ">">>

\* lines 75, 80: k = getattr(key, "char", str(key)): a KeyCode has the attribute
\* char (None when the key has no character), a member of Key has not
GetChar(key) == IF key.cls = "KeyCode" THEN key.char ELSE PyStr(StrOf(key))

\* ------------------------------------------------ codec: capture (54-81)
OnMove(x, y, t) == [type |-> PyTag("mouse_move"), time |-> t, x |-> PyInt(x), y |-> PyInt(y)]
OnClick(x, y, button, pressed, t) ==
  [type |-> PyTag("mouse_click"), time |-> t, x |-> PyInt(x), y |-> PyInt(y),
   button |-> PyStr(StrOf(button)), pressed |-> PyBool(pressed)]
OnScroll(x, y, dx, dy, t) ==
  [type |-> PyTag("mouse_scroll"), time |-> t, x |-> PyInt(x), y |-> PyInt(y),
   dx |-> PyInt(dx), dy |-> PyInt(dy)]
OnPress(key, t) == [type |-> PyTag("key_press"), time |-> t, key |-> GetChar(key)]
OnRelease(key, t) == [type |-> PyTag("key_release"), time |-> t, key |-> GetChar(key)]

\* the callback a device input reaches
Encode(inp, t) ==
  IF inp.dev = "move" THEN OnMove(inp.x, inp.y, t)
  ELSE IF inp.dev = "click" THEN OnClick(inp.x, inp.y, inp.button, inp.pressed, t)
  ELSE IF inp.dev = "scroll" THEN OnScroll(inp.x, inp.y, inp.dx, inp.dy, t)
  ELSE IF inp.dev = "press" THEN OnPress(inp.key, t)
  ELSE OnRelease(inp.key, t)

\* ------------------------------------------------ codec: replay (179-264)
\* a native call of a pynput controller; raises: the call raises before it injects
\* (Controller.press and release reject a str that is not one character)
Call(fn, arg) == [fn |-> fn, arg |-> arg, raises |-> FALSE]
Rejected(fn, arg) == [fn |-> fn, arg |-> arg, raises |-> TRUE]

\* a run of native calls of _perform_event, inside `with self._suppress_events()`
\* (scoped) or outside, and where an exception raised in it goes: "propagate" out
\* of _perform_event (caught at line 149), "next" (caught, the code below goes on)
\* or "swallow" (caught, the function returns)
Scope(calls, onraise) == [scoped |-> TRUE, calls |-> calls, onraise |-> onraise]
Unscoped(calls, onraise) == [scoped |-> FALSE, calls |-> calls, onraise |-> onraise]

\* self.kb_ctrl.press(s) / release(s) with a str
KbCall(fn, chars) ==
  IF Len(chars) = 1 THEN Call(fn, KeyCode(PyStr(chars), 0)) ELSE Rejected(fn, PyStr(chars))

\* _press_key_from_string (213-239) and _release_key_from_string (241-264), which
\* differ in the controller method only
KeyFromString(k, fn) ==
  IF ~Truthy(k) THEN <<>>
  ELSE LET named == StartsWith(k.s, KeyDot)
           quoted == Len(k.s) >= 2 /\ k.s[1] = Quote /\ k.s[Len(k.s)] = Quote
           rest == IF quoted
                   THEN <<Scope(<<KbCall(fn, SubSeq(k.s, 2, Len(k.s) - 1))>>, "swallow")>>
                   ELSE <<Scope(<<KbCall(fn, k.s)>>, "swallow")>>
       IN IF named /\ AfterFirstDot(k.s) \in KeyNames
          THEN <<Scope(<<Call(fn, KeyMember(AfterFirstDot(k.s)))>>, "next")>> \o rest
          ELSE rest

PressKeyFromString(k) == KeyFromString(k, "key_press")
ReleaseKeyFromString(k) == KeyFromString(k, "key_release")

\* lines 183-185, 194-195, 204-205: the cursor is moved when x and y are there
Reposition(ev) ==
  IF Get(ev, "x", PyNone) # PyNone /\ Get(ev, "y", PyNone) # PyNone
  THEN <<Call("position", <<ev.x, ev.y>>)>>
  ELSE <<>>

\* lines 189-192: the Button a "button" entry stands for
ButtonFromString(btn_str) ==
  LET name == IF Truthy(btn_str) THEN LastPart(btn_str.s) ELSE Left
  IN IF name \in ButtonNames THEN ButtonMember(name) ELSE ButtonMember(Left)

\* click with the cursor moved before the scope is entered
PerformClick_RepositionOutside(ev) ==
  <<Unscoped(Reposition(ev), "propagate"),
    Scope(<<Call(IF Truthy(Get(ev, "pressed", PyBool(TRUE)))
                 THEN "button_press" ELSE "button_release",
                 ButtonFromString(Get(ev, "button", PyStr(<<>>))))>>, "propagate")>>
\* lines 186-200: mouse_click
PerformClick(ev) ==
  <<Scope(Reposition(ev) \o
          <<Call(IF Truthy(Get(ev, "pressed", PyBool(TRUE)))
                 THEN "button_press" ELSE "button_release",
                 ButtonFromString(Get(ev, "button", PyStr(<<>>))))>>, "propagate")>>

\* _perform_event(ev), lines 179-211: the runs of native calls it makes, in order
PerformEvent(ev) ==
  LET t == Get(ev, "type", PyNone)
  IN IF t = PyTag("mouse_move") THEN <<Scope(Reposition(ev), "propagate")>>
     ELSE IF t = PyTag("mouse_click") THEN PerformClick(ev)
     ELSE IF t = PyTag("mouse_scroll")
     THEN <<Scope(Reposition(ev) \o
                  <<Call("scroll", <<Get(ev, "dx", PyInt(0)), Get(ev, "dy", PyInt(0))>>)>>,
                  "propagate")>>
     ELSE IF t = PyTag("key_press") THEN PressKeyFromString(Get(ev, "key", PyNone))
     ELSE IF t = PyTag("key_release") THEN ReleaseKeyFromString(Get(ev, "key", PyNone))
     ELSE <<>>

\* ------------------------------------------------ codec: one event, step by step
\* keys and buttons the listeners report: two characters (one of them the quote),
\* a key that has no character, the members of Key, the members of Button
Keys ==
  {KeyCode(PyStr(<<"a">>), 65), KeyCode(PyStr(<<Quote>>), 222), KeyCode(PyNone, 12)}
    \cup {KeyMember(n) : n \in KeyNames}
Buttons == {ButtonMember(n) : n \in ButtonNames}

CodecInputs ==
  {[dev |-> d, key |-> k] : d \in {"press", "release"}, k \in Keys}
    \cup {[dev |-> "click", x |-> 3, y |-> 4, button |-> b, pressed |-> p] :
            b \in Buttons, p \in BOOLEAN}
    \cup {[dev |-> "scroll", x |-> 3, y |-> 4, dx |-> 0, dy |-> d] : d \in {-1, 1}}
    \cup {[dev |-> "move", x |-> 3, y |-> 4]}

\* records json.load can deliver that no callback writes: an unknown type, no type,
\* a click without button, a click with a button that does not exist, a scroll
\* without dx and dy, a key_press without key
MalformedRecords ==
  { [type |-> PyTag("mouse_drag"), time |-> 0, x |-> PyInt(3), y |-> PyInt(4)],
    [time |-> 0, key |-> PyStr(<<"a">>)],
    [type |-> PyTag("mouse_click"), time |-> 0, x |-> PyInt(3), y |-> PyInt(4),
     pressed |-> PyBool(TRUE)],
    [type |-> PyTag("mouse_click"), time |-> 0, x |-> PyInt(3), y |-> PyInt(4),
     button |-> PyStr(ButtonDot \o <<"f", "o", "o">>), pressed |-> PyBool(FALSE)],
    [type |-> PyTag("mouse_scroll"), time |-> 0, x |-> PyInt(3), y |-> PyInt(4)],
    [type |-> PyTag("key_press"), time |-> 0] }

C_Frame == UNCHANGED <<mainvars, gatevars, det, xc>>

\* an event followed from the record rec: not yet replayed
Recorded(src, rec) ==
  [pc |-> "recorded", src |-> src, rec |-> rec, plan |-> <<>>, calls |-> <<>>,
   out |-> <<>>, failed |-> FALSE]

\* a callback of a listener builds the record of a device input (lines 54-81)
CodecCapture(inp) ==
  /\ cdc.pc = "idle"
  /\ cdc' = Recorded(inp, Encode(inp, 0))
  /\ UNCHANGED suppress_count
  /\ C_Frame

\* load() delivers a record of a file (lines 108-110): nothing is checked
CodecLoad(r) ==
  /\ cdc.pc = "idle"
  /\ cdc' = Recorded([dev |-> "file"], r)
  /\ UNCHANGED suppress_count
  /\ C_Frame

\* line 148: _perform_event(ev) is called
P_Start ==
  /\ cdc.pc = "recorded"
  /\ cdc' = [cdc EXCEPT !.plan = PerformEvent(cdc.rec),
                        !.pc = IF PerformEvent(cdc.rec) = <<>> THEN "replayed" ELSE "enter"]
  /\ UNCHANGED suppress_count
  /\ C_Frame

\* the next run of native calls begins, entering the scope when it has one
P_Enter ==
  /\ cdc.pc = "enter"
  /\ cdc' = [cdc EXCEPT !.pc = "calls", !.calls = Head(cdc.plan).calls]
  /\ IF Head(cdc.plan).scoped THEN SuppressEnter ELSE UNCHANGED suppress_count
  /\ C_Frame

\* a native call: it injects (out) or raises
P_Call(ok) ==
  /\ cdc.pc = "calls"
  /\ cdc.calls # <<>>
  /\ IF ok /\ ~Head(cdc.calls).raises
     THEN cdc' = [cdc EXCEPT !.out = Append(@, Head(cdc.calls)), !.calls = Tail(@)]
     ELSE cdc' = [cdc EXCEPT !.pc = "unwind", !.failed = TRUE]
  /\ UNCHANGED suppress_count
  /\ C_Frame

\* the run of calls ends, by its last call or by an exception; the scope is left,
\* and _perform_event returns unless the exception is caught and the code goes on
P_Exit ==
  /\ cdc.pc = "unwind" \/ (cdc.pc = "calls" /\ cdc.calls = <<>>)
  /\ IF Head(cdc.plan).scoped
     THEN SuppressExit(cdc.pc = "unwind")
     ELSE UNCHANGED suppress_count
  /\ IF cdc.pc = "unwind" /\ Head(cdc.plan).onraise = "next"
     THEN cdc' = [cdc EXCEPT !.pc = "enter", !.plan = Tail(@), !.calls = <<>>]
     ELSE cdc' = [cdc EXCEPT !.pc = "replayed", !.plan = <<>>, !.calls = <<>>]
  /\ C_Frame

\* the event has been performed; the next one is followed
CodecDone ==
  /\ cdc.pc = "replayed"
  /\ cdc' = NoCodec
  /\ UNCHANGED suppress_count
  /\ C_Frame

\* another user of the suppression scope at work during the replay
CodecEmitter == 1

\* ------------------------------------------------ App: global listeners (390-422)
D_Frame == UNCHANGED <<mainvars, suppress_count, gatevars, cdc, xc>>

\* a genuine input of device d reaches the callback of a global listener
\* (_on_global_key_press for a key other than F8, _on_global_mouse_move, _click,
\* _scroll): the first operand of `self.rp.playing and (not self.rp.is_suppressed())`
D_Input(d) ==
  /\ det.pc = "idle"
  /\ det.pending < MaxPending
  /\ det' = IF playing THEN [det EXCEPT !.pc = "check", !.dev = d] ELSE det
  /\ D_Frame

\* the second operand, and self.root.after(0, self.stop_play) when it holds
D_Check ==
  /\ det.pc = "check"
  /\ det' = [det EXCEPT !.pc = "idle", !.dev = "none",
                        !.pending = IF is_suppressed THEN @ ELSE @ + 1]
  /\ D_Frame

\* the Tk main loop runs a queued App.stop_play (501-504)
AppStopPlay ==
  /\ det.pending > 0
  /\ det' = [det EXCEPT !.pending = @ - 1]
  /\ StopPlayBegin

\* ------------------------------------------------ stop_play() from other threads
\* threads that may call stop_play() besides the control thread: a callback thread
\* of a listener, and a playback thread (between two events of its cycle)
DetectorThread == -1
Callers == Tasks \cup {DetectorThread}

\* line 168, executed by thread c: self.stop_play_event.set()
X_Signal(c) ==
  /\ xc.pc = "idle"
  /\ c \in Tasks => tasks[c].pc = "for"
  /\ stop_play_event' = TRUE
  /\ xc' = [pc |-> "check", who |-> c, joined |-> None]
  /\ tasks' = IF c \in Tasks THEN [tasks EXCEPT ![c].pc = "stop_play"] ELSE tasks
  /\ UNCHANGED <<rec_vars, playing, play_thread, ctl_vars, events, hook, now,
                 suppress_count, gatevars, cdc, det>>

\* a call that joins whatever thread calls it
X_Check_AlwaysJoins ==
  /\ xc.pc = "check"
  /\ xc' = IF play_thread # None
           THEN [xc EXCEPT !.pc = "join", !.joined = play_thread]
           ELSE [xc EXCEPT !.pc = "reset"]
  /\ UNCHANGED <<mainvars, suppress_count, gatevars, cdc, det>>
\* line 170: if self.play_thread and threading.current_thread() != self.play_thread
X_Check ==
  /\ xc.pc = "check"
  /\ xc' = IF play_thread # None /\ xc.who # play_thread
           THEN [xc EXCEPT !.pc = "join", !.joined = play_thread]
           ELSE [xc EXCEPT !.pc = "reset"]
  /\ UNCHANGED <<mainvars, suppress_count, gatevars, cdc, det>>

\* lines 171-174: join(timeout=1.0) returns: the thread has ended or the timeout
\* has expired
X_Join ==
  /\ xc.pc = "join"
  /\ ~Running(xc.joined) \/ JoinTimesOut(xc.joined)
  /\ xc' = [xc EXCEPT !.pc = "reset"]
  /\ UNCHANGED <<mainvars, suppress_count, gatevars, cdc, det>>

\* line 175: self.playing = False
X_Reset ==
  /\ xc.pc = "reset"
  /\ playing' = FALSE
  /\ xc' = [xc EXCEPT !.pc = "clear"]
  /\ UNCHANGED <<rec_vars, play_thread, stop_play_event, ctl_vars, events, tasks, hook,
                 now, suppress_count, gatevars, cdc, det>>

\* line 177: self.stop_play_event.clear(), and the return to the caller
X_Clear ==
  /\ xc.pc = "clear"
  /\ stop_play_event' = FALSE
  /\ xc' = NoCall
  /\ tasks' = IF xc.who \in Tasks THEN [tasks EXCEPT ![xc.who].pc = "for"] ELSE tasks
  /\ UNCHANGED <<rec_vars, playing, play_thread, ctl_vars, events, hook, now,
                 suppress_count, gatevars, cdc, det>>

\* ------------------------------------------------ specifications
Next ==
  \/ Resume
  \/ StartRecording
  \/ StopRecordingBegin
  \/ StopRecordingEnd
  \/ \E log \in LoadLogs : Load(log)
  \/ \E a \in PlayArgs : Play(a[1], a[2])
  \/ StopPlaySignal
  \/ StopPlayJoin
  \/ StopPlayReset
  \/ StopPlayClear
  \/ \E i \in Tasks : T_Loop(i)
  \/ \E i \in Tasks : T_For(i)
  \/ \E i \in Tasks, ok \in BOOLEAN : T_Inject(i, ok)
  \/ \E i \in Tasks : T_Interval(i)
  \/ \E i \in Tasks : T_Finally(i)

Spec == Init /\ [][Next]_vars

NextLog ==
  \/ Resume
  \/ \E log \in RecordedLogs : Load(log)
  \/ \E a \in RepeatArgs : Play(a[1], a[2])
  \/ \E i \in Tasks : T_Loop(i)
  \/ \E i \in Tasks : T_For(i)
  \/ \E i \in Tasks, ok \in BOOLEAN : T_Inject(i, ok)
  \/ \E i \in Tasks : T_Interval(i)
  \/ \E i \in Tasks : T_Finally(i)

SpecLog == InitLog /\ [][NextLog]_vars

NextRec ==
  \/ StartRecording
  \/ StopRecordingBegin
  \/ StopRecordingEnd
  \/ \E log \in LoadLogs : Load(log)
  \/ \E d \in Devices : H_Check(d)
  \/ \E d \in Devices : H_Time(d)
  \/ \E d \in Devices : H_Append(d)
  \/ Tick

SpecRec == InitRec /\ [][NextRec]_vars

NextHook ==
  \/ StartRecording
  \/ \E at \in FailPoints : StartRecordingFails(at)
  \/ Resume
  \/ StopRecordingBegin
  \/ StopRecordingEnd
  \/ \E d \in Devices : H_Check(d)
  \/ \E d \in Devices : H_Time(d)
  \/ \E d \in Devices : H_Append(d)
  \/ Tick

SpecHook == InitRec /\ [][NextHook]_vars

NextGate ==
  \/ \E e \in Emitters : GateEnter(e)
  \/ \E e \in Emitters : GateRaise(e)
  \/ \E e \in Emitters : GateExit(e)
  \/ GateRead

SpecGate == Init /\ [][NextGate]_vars

NextCodec ==
  \/ \E inp \in CodecInputs : CodecCapture(inp)
  \/ \E r \in MalformedRecords : CodecLoad(r)
  \/ P_Start
  \/ \E ok \in BOOLEAN : P_Call(ok)
  \/ P_Enter
  \/ P_Exit
  \/ CodecDone
  \/ GateEnter(CodecEmitter)
  \/ GateExit(CodecEmitter)

SpecCodec == Init /\ [][NextCodec]_vars

NextDetect ==
  \/ \E log \in LoadLogs : Load(log)
  \/ \E a \in PlayArgs : Play(a[1], a[2])
  \/ Resume
  \/ \E d \in Devices : D_Input(d)
  \/ D_Check
  \/ AppStopPlay
  \/ StopPlayJoin
  \/ StopPlayReset
  \/ StopPlayClear
  \/ \E i \in Tasks : T_Loop(i)
  \/ \E i \in Tasks : T_For(i)
  \/ \E i \in Tasks, ok \in BOOLEAN : T_Inject(i, ok)
  \/ \E i \in Tasks : T_Interval(i)
  \/ \E i \in Tasks : T_Finally(i)

SpecDetect == Init /\ [][NextDetect]_vars

NextStop ==
  \/ \E log \in StopLogs : Load(log)
  \/ \E a \in PlayArgs : Play(a[1], a[2])
  \/ Resume
  \/ StopPlaySignal
  \/ StopPlayJoin
  \/ StopPlayReset
  \/ StopPlayClear
  \/ \E c \in Callers : X_Signal(c)
  \/ X_Check
  \/ X_Join
  \/ X_Reset
  \/ X_Clear
  \/ \E i \in Tasks : T_Loop(i)
  \/ \E i \in Tasks : T_For(i)
  \/ \E i \in Tasks, ok \in BOOLEAN : T_Inject(i, ok)
  \/ \E i \in Tasks : T_Interval(i)
  \/ \E i \in Tasks : T_Finally(i)

\* a thread inside stop_play() goes on; a join returns when it can infinitely
\* often (the timeout runs out); a playback thread outside the native injection
\* is scheduled: it polls in slices of 0.01 s and 0.05 s (lines 145, 159), and it
\* goes on with its events between two calls of stop_play() of its own. Nothing
\* is assumed of a native injection: it may never return
FairStop ==
  /\ WF_vars(StopPlayReset)
  /\ WF_vars(StopPlayClear)
  /\ SF_vars(StopPlayJoin)
  /\ WF_vars(X_Check)
  /\ WF_vars(X_Reset)
  /\ WF_vars(X_Clear)
  /\ SF_vars(X_Join)
  /\ \A i \in Tasks :
       /\ WF_vars(T_Loop(i))
       /\ SF_vars(T_For(i))
       /\ WF_vars(T_Interval(i))
       /\ WF_vars(T_Finally(i))

SpecStop == Init /\ [][NextStop]_vars /\ FairStop

\* ------------------------------------------------ properties
\* calls of the control thread, as steps
PlayCall == \E a \in PlayArgs : Play(a[1], a[2])
StopPlayStep == StopPlaySignal \/ StopPlayJoin \/ StopPlayReset \/ StopPlayClear
InStopPlay == mpc \in {"stop_join", "stop_reset", "stop_clear"}

\* C1: in every reachable state the flags recording and playing are not both true.
C1_MutualExclusion == ~(recording /\ playing)

\* start_recording() was called during a playback and refused
C1_Witness == mpc = "start_recording:InvalidState" /\ playing /\ ~recording

\* C2: start_recording() while Playing ends with InvalidState, play() while
\* Recording ends with InvalidState, and the failing call leaves the log, the flags
\* recording and playing and the cancellation signal as they were.
C2_InvalidState ==
  [][/\ (StartRecording /\ playing) =>
          /\ mpc' = "start_recording:InvalidState"
          /\ UNCHANGED <<events, recording, playing, stop_play_event>>
     /\ (PlayCall /\ recording) =>
          /\ mpc' = "play:InvalidState"
          /\ UNCHANGED <<events, recording, playing, stop_play_event>>]_vars

\* play() was called during a recording, with a log that is not empty, and refused
C2_Witness == mpc = "play:InvalidState" /\ recording /\ events # <<>>

\* C3 as stated: play() on an empty log ends with EmptyLog and changes nothing: no
\* thread is started, playing and the cancellation signal stay as they were.
C3_EmptyLogAlways ==
  [][(PlayCall /\ events = <<>>) =>
       /\ mpc' = "play:EmptyLog"
       /\ UNCHANGED <<playing, play_thread, stop_play_event, tasks>>]_vars

\* C3, amended: play() on an empty log ends with EmptyLog when the session is not
\* Recording and with InvalidState when it is; either way no thread is started and
\* playing, the cancellation signal, the log and recording stay as they were.
C3_EmptyLog ==
  [][(PlayCall /\ events = <<>>) =>
       /\ mpc' = IF recording THEN "play:InvalidState" ELSE "play:EmptyLog"
       /\ UNCHANGED <<playing, play_thread, stop_play_event, tasks, events,
                      recording>>]_vars

\* play() was called with an empty log while nothing was recorded, and refused
C3_Witness == mpc = "play:EmptyLog" /\ ~recording /\ events = <<>>

\* C4: at most one playback thread is able to perform events at any time.
C4_OneTaskAlive == Cardinality({i \in Tasks : Alive(i)}) <= 1

\* C5: start_recording() during a recording does not clear the log, does not reset
\* start_time and starts no second pair of listeners.
C5_SecondStartHarmless ==
  [][(StartRecording /\ recording) =>
       UNCHANGED <<events, start_time, mouse_hooks, kb_hooks>>]_vars

\* C6: a playback with repeat_count = N > 0 that nobody cancels ends by completing,
\* after N cycles that each performed the events of the log played, in order.
C6_ExactCycles ==
  \A i \in Tasks :
    tasks[i].pc = "finally" =>
      /\ tasks[i].exit = "completed"
      /\ tasks[i].cycles_done = tasks[i].repeat_count
      /\ tasks[i].inorder

\* C7: when stop_play() called on a running playback returns, that playback thread
\* can perform no further event and playing is false.
C7_StoppedOnReturn ==
  [][(StopPlayClear /\ sp # 0) =>
       /\ tasks'[sp].pc \notin {"loop", "for", "inject", "interval"}
       /\ ~playing']_vars

C9_CounterIsOpenScopes ==
  /\ [](/\ suppress_count >= 0
        /\ suppress_count = OpenScopes
        /\ is_suppressed <=> (OpenScopes > 0))
  /\ [][GateRead => (observed' <=> (OpenScopes > 0))]_vars

\* an exception raised in a nested scope has left the inner scope while another
\* emitter holds scopes open, and is_suppressed() returned true
C9_Witness ==
  \E e, f \in Emitters :
    /\ e # f
    /\ raising[e] = 2
    /\ depth[e] = 1
    /\ depth[f] > 0
    /\ observed

\* C10: when a playback thread ends, by whatever path, playing is false.
C10_EndsNotPlaying ==
  [][\A i \in Tasks : (Running(i) /\ tasks'[i].pc = "done") => ~playing']_vars

\* a playback thread is ending because of an exception, with playing still true
C10_Witness == \E i \in Tasks : tasks[i].pc = "finally" /\ tasks[i].exit = "failed" /\ playing

\* C13: once stop_recording() has returned and until the next call, the log does
\* not change by itself: no callback of a listener appends to it any more.
C13_NoAppendAfterStop ==
  [][(mpc = "idle" /\ ~recording) =>
       \/ events' = events
       \/ StartRecording
       \/ \E log \in LoadLogs : Load(log)]_vars

\* C14: the times of the events of the log never decrease in log order.
C14_TimesNonDecreasing ==
  \A i, j \in 1..Len(events) : i < j => events[i].time <= events[j].time

\* C15: a playback thread waits the interval only when a further cycle follows.
C15_NoWaitAfterLastCycle ==
  \A i \in Tasks :
    tasks[i].pc = "interval" =>
      (tasks[i].repeat_count <= 0 \/ tasks[i].cycles_done < tasks[i].repeat_count)

\* C16: while playing is true no step changes or replaces the log.
C16_LogReadOnlyWhilePlaying == [][playing => events' = events]_vars

\* C20: playing is true whenever a playback thread can still perform events.
C20_PlayingWhileAlive == \A i \in Tasks : Alive(i) => playing

\* C11: an event captured from a device input and replayed without a failing call
\* injects that input again: the same key (a character for a key with a character,
\* the member of Key for a named key) pressed or released, the same button pressed
\* or released, the same scroll, the same position.
C11_RoundTrip ==
  (cdc.pc = "replayed" /\ cdc.src.dev # "file" /\ ~cdc.failed) =>
    LET inp == cdc.src
        last == cdc.out[Len(cdc.out)]
    IN /\ cdc.out # <<>>
       /\ inp.dev \in {"press", "release"} =>
            /\ Len(cdc.out) = 1
            /\ last.fn = (IF inp.dev = "press" THEN "key_press" ELSE "key_release")
            /\ last.arg.cls = inp.key.cls
            /\ IF inp.key.cls = "Key" THEN last.arg.name = inp.key.name
               ELSE last.arg.char = inp.key.char /\ inp.key.char # PyNone
       /\ inp.dev = "click" =>
            /\ last.fn = (IF inp.pressed THEN "button_press" ELSE "button_release")
            /\ last.arg = inp.button
       /\ inp.dev = "scroll" =>
            /\ last.fn = "scroll"
            /\ last.arg = <<PyInt(inp.dx), PyInt(inp.dy)>>
       /\ inp.dev \in {"move", "click", "scroll"} =>
            cdc.out[1] = Call("position", <<PyInt(inp.x), PyInt(inp.y)>>)

\* C12: a record that no callback writes (unknown type, missing entries, unknown
\* button) is not performed without an error.
C12_MalformedFails ==
  (cdc.pc = "replayed" /\ cdc.src.dev = "file") => cdc.failed

\* C18: every native call of _perform_event is made while the suppression counter
\* is above 0, and before and after the event the counter holds no scope of the
\* event, whether its calls succeeded or raised.
C18_InjectionInsideScope ==
  /\ [][(\E ok \in BOOLEAN : P_Call(ok)) => is_suppressed]_vars
  /\ [](cdc.pc \in {"idle", "recorded", "replayed"} => suppress_count = OpenScopes)

\* a click whose button call raised after the cursor was moved has been performed,
\* while another emitter holds a scope open
C18_Witness ==
  /\ cdc.pc = "replayed"
  /\ cdc.failed
  /\ cdc.rec.type = PyTag("mouse_click")
  /\ Len(cdc.out) = 1
  /\ cdc.out[1].fn = "position"
  /\ depth[CodecEmitter] = 1

\* C17: a genuine mouse input that reaches a global listener of App while playing
\* is true gets stop_play() queued, also while the playback thread is inside the
\* scope of a key press it emits (the logs played hold key presses only).
C17_InterferenceStops ==
  [][(D_Check /\ playing /\ det.dev = "mouse") => det'.pending = det.pending + 1]_vars

\* C19: a playback thread that calls stop_play() does not join itself, and every
\* call of stop_play(), by the control thread, by a callback thread or by a playback
\* thread, returns, also when the playback thread never leaves a native injection.
C19_StopPlayReturns ==
  /\ [](xc.pc = "join" => xc.who # xc.joined)
  /\ (xc.pc # "idle") ~> (xc.pc = "idle")
  /\ InStopPlay ~> (mpc = "idle")

\* the playback thread in charge is inside its own call of stop_play(), past the
\* test of line 170, while the control thread waits in its join
C19_Witness ==
  /\ xc.pc = "reset"
  /\ xc.who = play_thread
  /\ mpc = "stop_join"

\* C21: when a call that installs the mouse or keyboard hook raises inside
\* start_recording(), the session is not left recording and the attempt has
\* installed no hook.
C21_FailedStartAbandoned ==
  [][(\E at \in FailPoints : StartRecordingFails(at)) =>
       /\ ~recording'
       /\ mouse_hooks' = mouse_hooks
       /\ kb_hooks' = kb_hooks]_vars

====
